---- MODULE Spec2Model ----
(***************************************************************************)
(* Model of .github/analysis/run_stockfish_analysis.py: one run of the     *)
(* script, from the start of the __main__ block to the exit of the         *)
(* process.  The two collaborators (ChessService, AnalyticsService) are    *)
(* not part of the file; they appear as inputs: the games the fetching     *)
(* service holds, whether a call raises, and the value the analysis        *)
(* returns.                                                                *)
(***************************************************************************)
EXTENDS Integers, Sequences, FiniteSets, TLC

\* Largest number of games the fetching collaborator holds for the user.
MaxGames == 2

(***************************************************************************)
(* Calendar arithmetic of datetime                                         *)
(***************************************************************************)

SecondsPerDay == 86400

IsLeap(y) == (y % 4 = 0 /\ y % 100 # 0) \/ y % 400 = 0

DaysInMonth(y, m) ==
    IF m = 2 THEN (IF IsLeap(y) THEN 29 ELSE 28)
    ELSE IF m \in {4, 6, 9, 11} THEN 30 ELSE 31

\* Days from 1970-01-01 to the civil date y-m-d.
DaysFromCivil(y, m, d) ==
    LET yy  == IF m <= 2 THEN y - 1 ELSE y
        era == yy \div 400
        yoe == yy - era * 400
        mp  == IF m > 2 THEN m - 3 ELSE m + 9
        doy == (153 * mp + 2) \div 5 + d - 1
        doe == yoe * 365 + yoe \div 4 - yoe \div 100 + doy
    IN  era * 146097 + doe - 719468

\* The civil date that lies z days after 1970-01-01.
CivilFromDays(z) ==
    LET zz  == z + 719468
        era == zz \div 146097
        doe == zz - era * 146097
        yoe == (doe - doe \div 1460 + doe \div 36524 - doe \div 146096) \div 365
        doy == doe - (365 * yoe + yoe \div 4 - yoe \div 100)
        mp  == (5 * doy + 2) \div 153
        d   == doy - (153 * mp + 2) \div 5 + 1
        m   == IF mp < 10 THEN mp + 3 ELSE mp - 9
        y   == yoe + era * 400 + (IF m <= 2 THEN 1 ELSE 0)
    IN  [year |-> y, month |-> m, day |-> d]

\* A naive datetime: calendar fields and the second of the day.
DateTime(y, m, d, s) == [year |-> y, month |-> m, day |-> d, second |-> s]

\* The value of a datetime variable that has not been assigned yet.
NoDate == DateTime(0, 0, 0, 0)

\* a < b and a <= b on naive datetimes: field by field, most significant first.
DtLt(a, b) ==
    \/ a.year < b.year
    \/ a.year = b.year /\ a.month < b.month
    \/ a.year = b.year /\ a.month = b.month /\ a.day < b.day
    \/ a.year = b.year /\ a.month = b.month /\ a.day = b.day /\ a.second < b.second

DtLe(a, b) == a = b \/ DtLt(a, b)

\* datetime.strptime(text, '%Y-%m-%d') of the text "y-m-d": midnight of that
\* date, or ValueError when there is no such date.
Strptime(cfg) ==
    IF cfg[2] \in 1..12 /\ cfg[3] >= 1 /\ cfg[3] <= DaysInMonth(cfg[1], cfg[2])
    THEN [ok |-> TRUE, value |-> DateTime(cfg[1], cfg[2], cfg[3], 0)]
    ELSE [ok |-> FALSE, value |-> NoDate]

\* datetime.fromtimestamp(ts): the local naive datetime of the instant ts
\* (seconds since the epoch), off being the local zone's offset from UTC.
FromTimestamp(ts, off) ==
    CivilFromDays((ts + off) \div SecondsPerDay) @@ [second |-> (ts + off) % SecondsPerDay]

\* dt.replace(year=y, month=m): same day and time in another month, or
\* ValueError when there is no such month or the month has no such day.
Replace(dt, y, m) ==
    IF m \in 1..12 /\ dt.day <= DaysInMonth(y, m)
    THEN [ok |-> TRUE, value |-> DateTime(y, m, dt.day, dt.second)]
    ELSE [ok |-> FALSE, value |-> dt]

\* The month step without the December case.
AdvanceCursorNoRollover(cur) == Replace(cur, cur.year, cur.month + 1)

\* The month step at the end of a loop iteration.
AdvanceCursor(cur) ==
    IF cur.month = 12 THEN Replace(cur, cur.year + 1, 1)
    ELSE Replace(cur, cur.year, cur.month + 1)

(***************************************************************************)
(* Configuration and the collaborators' inputs                             *)
(***************************************************************************)

USERNAME == "jay_fh"

TIMEZONE == "Bangkok"

\* The values START_DATE and END_DATE are drawn from, as <<year, month, day>>
\* for the text 'YYYY-MM-DD'.  The last one is a text that names no date.
ConfigDates ==
    { <<2025, 11, 15>>, <<2025, 12, 31>>, <<2026, 1, 1>>, <<2026, 1, 15>>, <<2026, 1, 31>>,
      <<2026, 2, 10>>, <<2026, 2, 30>> }

\* Offsets from UTC (in seconds) of the zone the script runs in.
UtcOffsets == {0, 7 * 3600}

NoMonth == <<0, 0>>

\* The end_time field of a game record: absent, a number of seconds since
\* the epoch, or a value fromtimestamp does not accept.
Missing == [kind |-> "missing", value |-> 0]

Bad == [kind |-> "bad", value |-> 0]

Num(ts) == [kind |-> "num", value |-> ts]

\* The end_time fields the collaborator's games are drawn from.
EndTimes ==
    { Num(DaysFromCivil(2026, 1, 15) * SecondsPerDay + 12 * 3600),
      Num(DaysFromCivil(2026, 1, 31) * SecondsPerDay),
      Num(DaysFromCivil(2026, 2, 5) * SecondsPerDay + 12 * 3600),
      Num(DaysFromCivil(2025, 12, 31) * SecondsPerDay + 20 * 3600),
      Missing, Bad }

\* game.get('end_time', 0)
EndTimeOf(game) == IF game.end_time.kind = "missing" THEN 0 ELSE game.end_time.value

\* The monthly archive a game is kept in: the month its end time falls in;
\* a game without a usable end time is kept in the archive of January 2026.
ArchiveOf(end_time, off) ==
    IF end_time.kind = "num"
    THEN LET d == FromTimestamp(end_time.value, off) IN <<d.year, d.month>>
    ELSE <<2026, 1>>

\* The games the fetching collaborator holds for USERNAME, in the order it
\* returns them: every list of at most MaxGames games.
Stores(off) ==
    UNION { { [i \in 1..n |-> [id |-> i, month |-> ArchiveOf(ends[i], off),
                               end_time |-> ends[i]]] : ends \in [1..n -> EndTimes] }
            : n \in 0..MaxGames }

\* chess_service.get_games_by_month(USERNAME, year, month)
GetGamesByMonth(games, year, month) ==
    SelectSeq(games, LAMBDA g : g.month = <<year, month>>)

\* The shapes of a stage's entry in the value aggregate_mistake_analysis
\* returns: no entry, an entry with total_moves = 0, an entry with every count,
\* an entry with total_moves > 0 that lacks a count.
StageKinds == {"absent", "zero", "full", "partial"}

NoAnalysis == [kind |-> "none", early |-> "absent", middle |-> "absent", endgame |-> "absent"]

\* Values the analytics collaborator may return.
AnalysisResults ==
    { [kind |-> "result", early |-> "full", middle |-> "full", endgame |-> "full"],
      [kind |-> "result", early |-> "full", middle |-> "zero", endgame |-> "absent"],
      [kind |-> "result", early |-> "full", middle |-> "partial", endgame |-> "full"] }

\* The output file before the run: absent, or left by an earlier run.
InitialFiles == { [kind |-> "absent"], [kind |-> "old"] }

(***************************************************************************)
(* State of one run                                                        *)
(***************************************************************************)

VARIABLES
    cfgStart,          \* START_DATE
    cfgEnd,            \* END_DATE
    utcOffset,         \* the local zone of the machine
    store,             \* the games the fetching collaborator holds
    file0,             \* the output file as the run found it
    pc,                \* position of the run
    start,             \* main's local start
    end,               \* main's local end
    current,           \* main's month cursor
    all_games,         \* main's accumulated list
    mistake_analysis,  \* main's local mistake_analysis
    file,              \* the output file
    retval,            \* what main() returned to the __main__ block
    out,               \* the lines printed that the claims speak of
    exitStatus,        \* exit status of the process, -1 while it runs
    log,               \* the calls made to the collaborators and to open()
    raised             \* where an exception left main(), "none" if nowhere

vars == << cfgStart, cfgEnd, utcOffset, store, file0, pc, start, end, current,
           all_games, mistake_analysis, file, retval, out, exitStatus, log, raised >>

inputs == << cfgStart, cfgEnd, utcOffset, store, file0 >>

\* A printed line: its kind and, for a month's line, the month.
Line(tag, month) == [tag |-> tag, month |-> month]

\* A call: the operation, the month asked for (fetch), the games handed over
\* (analyse) and the value returned (analysed).
Call(op, month, games, result) ==
    [op |-> op, month |-> month, games |-> games, result |-> result]

Init ==
    /\ cfgStart \in ConfigDates
    /\ cfgEnd \in ConfigDates
    /\ utcOffset \in UtcOffsets
    /\ store \in Stores(utcOffset)
    /\ file0 \in InitialFiles
    /\ pc = "start"
    /\ start = NoDate
    /\ end = NoDate
    /\ current = NoDate
    /\ all_games = << >>
    /\ mistake_analysis = NoAnalysis
    /\ file = file0
    /\ retval = "unset"
    /\ out = << >>
    /\ exitStatus = -1
    /\ log = << >>
    /\ raised = "none"

(***************************************************************************)
(* main(): the helpers of the fetch loop                                   *)
(***************************************************************************)

\* The condition of the while loop.
LoopCondition(cur, e) == DtLe(cur, e)

\* The date test without the upper bound.
InRangeNoUpper(game_date, s, e) == DtLe(s, game_date)

\* The date test of the filter.
InRange(game_date, s, e) == DtLe(s, game_date) /\ DtLe(game_date, e)

\* The for loop over a month's games from the i-th game on, acc being
\* filtered_games so far.  ok is FALSE when fromtimestamp raised; acc is then
\* what had been accepted before the raise.
RECURSIVE FilterFrom(_, _, _, _, _, _)
FilterFrom(games, i, acc, s, e, off) ==
    IF i > Len(games) THEN [ok |-> TRUE, acc |-> acc]
    ELSE IF games[i].end_time.kind = "bad" THEN [ok |-> FALSE, acc |-> acc]
    ELSE FilterFrom(games, i + 1,
                    IF \E game_date \in {FromTimestamp(EndTimeOf(games[i]), off)} :
                          InRange(game_date, s, e)
                    THEN Append(acc, games[i]) ELSE acc,
                    s, e, off)

\* The body of the try block for one month: fails says that
\* get_games_by_month raised.
TryMonth(fails, games, s, e, off) ==
    IF fails THEN [ok |-> FALSE, acc |-> << >>]
    ELSE FilterFrom(games, 1, << >>, s, e, off)

\* all_games when accepted games are added as they are found.
ExtendPartial(all, r) == all \o r.acc

\* all_games after the try statement: extended when the block ran to its end,
\* untouched when the except clause caught an exception.
Extend(all, r) == IF r.ok THEN all \o r.acc ELSE all

\* The emptiness test that never sees an empty list.
IsEmptyListNever(l) == FALSE

\* `not all_games`
IsEmptyList(l) == Len(l) = 0

(***************************************************************************)
(* main(): one action per step                                             *)
(***************************************************************************)

\* An exception leaves main() from the step named where.
Raise(where) == pc' = "raised" /\ raised' = where

\* Services are constructed and the two dates parsed.  A constructor may
\* raise; strptime raises on a text that names no date.
InitServices ==
    /\ pc = "start"
    /\ \E fails \in BOOLEAN :
         LET s == Strptime(cfgStart)
             e == Strptime(cfgEnd)
         IN  IF fails
             THEN Raise("init") /\ UNCHANGED << start, end, current >>
             ELSE IF ~ s.ok \/ ~ e.ok
             THEN Raise("parse") /\ UNCHANGED << start, end, current >>
             ELSE /\ start' = s.value
                  /\ end' = e.value
                  /\ current' = s.value
                  /\ pc' = "loop"
                  /\ raised' = raised
    /\ all_games' = << >>
    /\ UNCHANGED << inputs, mistake_analysis, file, retval, out, exitStatus, log >>

\* One iteration of the while loop: the try statement, then the month step.
FetchMonth ==
    /\ pc = "loop"
    /\ LoopCondition(current, end)
    /\ \E fails \in BOOLEAN :
         \E r \in { TryMonth(fails, GetGamesByMonth(store, current.year, current.month),
                             start, end, utcOffset) } :
           LET month == << current.year, current.month >>
               next  == AdvanceCursor(current)
           IN  /\ log' = Append(log, Call("fetch", month, << >>, NoAnalysis))
               /\ all_games' = Extend(all_games, r)
               /\ out' = Append(out, Line(IF r.ok THEN "month_ok" ELSE "month_failed", month))
               /\ IF next.ok
                  THEN current' = next.value /\ pc' = "loop" /\ raised' = raised
                  ELSE current' = current /\ Raise("advance")
    /\ UNCHANGED << inputs, start, end, mistake_analysis, file, retval, exitStatus >>

\* The loop condition is false: the total is printed.
FinishFetch ==
    /\ pc = "loop"
    /\ ~ LoopCondition(current, end)
    /\ pc' = "fetched"
    /\ UNCHANGED << inputs, start, end, current, all_games, mistake_analysis, file,
                    retval, out, exitStatus, log, raised >>

\* `if not all_games`: the message, and main() returns None.
NoGamesReturn ==
    /\ pc = "fetched"
    /\ IsEmptyList(all_games)
    /\ out' = Append(out, Line("no_games", NoMonth))
    /\ retval' = "None"
    /\ pc' = "returned"
    /\ UNCHANGED << inputs, start, end, current, all_games, mistake_analysis, file,
                    exitStatus, log, raised >>

\* aggregate_mistake_analysis(games_data=all_games, username=USERNAME): it
\* returns a value or raises.
Analyse ==
    /\ pc = "fetched"
    /\ ~ IsEmptyList(all_games)
    /\ \/ /\ log' = Append(log, Call("analyse", NoMonth, all_games, NoAnalysis))
          /\ Raise("analyse")
          /\ UNCHANGED mistake_analysis
       \/ \E result \in AnalysisResults :
            /\ log' = log \o << Call("analyse", NoMonth, all_games, NoAnalysis),
                                Call("analysed", NoMonth, << >>, result) >>
            /\ mistake_analysis' = result
            /\ pc' = "summary"
            /\ raised' = raised
    /\ UNCHANGED << inputs, start, end, current, all_games, file, retval, out, exitStatus >>

\* The summary loop reads a stage's counts when its total_moves is positive:
\* a stage that lacks a count raises KeyError.
SummaryRaises(analysis) ==
    \E stage \in {"early", "middle", "endgame"} :
        (CASE stage = "early" -> analysis.early
           [] stage = "middle" -> analysis.middle
           [] stage = "endgame" -> analysis.endgame) = "partial"

Summarise ==
    /\ pc = "summary"
    /\ IF SummaryRaises(mistake_analysis)
       THEN Raise("summary") /\ UNCHANGED out
       ELSE /\ out' = Append(out, Line("summary", NoMonth))
            /\ pc' = "save"
            /\ raised' = raised
    /\ UNCHANGED << inputs, start, end, current, all_games, mistake_analysis, file,
                    retval, exitStatus, log >>

\* output_data with the last game lost from the games part.
OutputDataDropsLast(games, analysis) ==
    [ kind |-> "written",
      metadata |-> [ username |-> USERNAME, start_date |-> cfgStart, end_date |-> cfgEnd,
                     timezone |-> TIMEZONE, total_games |-> Len(games) ],
      mistake_analysis |-> analysis,
      games |-> SubSeq(games, 1, Len(games) - 1) ]

\* output_data.  analysis_date (the time of the run) is left out.  json.dump
\* keeps numbers, texts, lists and dictionaries as they are, so the file's
\* content is the structure itself.
OutputData(games, analysis) ==
    [ kind |-> "written",
      metadata |-> [ username |-> USERNAME, start_date |-> cfgStart, end_date |-> cfgEnd,
                     timezone |-> TIMEZONE, total_games |-> Len(games) ],
      mistake_analysis |-> analysis,
      games |-> games ]

\* open(output_file, 'w') and json.dump.  open may raise, and leaves the file
\* alone then; it truncates the file, so a dump that raises leaves a part of
\* the text behind.
Save ==
    /\ pc = "save"
    /\ \/ /\ Raise("write")
          /\ UNCHANGED << file, log, out, retval >>
       \/ /\ file' = [kind |-> "partial"]
          /\ log' = Append(log, Call("write", NoMonth, << >>, NoAnalysis))
          /\ Raise("write")
          /\ UNCHANGED << out, retval >>
       \/ /\ file' = OutputData(all_games, mistake_analysis)
          /\ log' = Append(log, Call("write", NoMonth, << >>, NoAnalysis))
          /\ out' = Append(out, Line("saved", NoMonth))
          /\ retval' = "output_file"
          /\ pc' = "returned"
          /\ raised' = raised
    /\ UNCHANGED << inputs, start, end, current, all_games, mistake_analysis, exitStatus >>

(***************************************************************************)
(* The __main__ block                                                      *)
(***************************************************************************)

\* Status of a process that runs off the end of the script.
NormalExitStatus == 0

\* sys.exit(1)
ErrorExitStatus == 1

\* main() returned: the success line, and the script ends.
MainReturn ==
    /\ pc = "returned"
    /\ out' = Append(out, Line("success", NoMonth))
    /\ exitStatus' = NormalExitStatus
    /\ pc' = "exit"
    /\ UNCHANGED << inputs, start, end, current, all_games, mistake_analysis, file,
                    retval, log, raised >>

\* The except clause without sys.exit(1).
MainExceptNoExit ==
    /\ pc = "raised"
    /\ out' = Append(out, Line("error", NoMonth))
    /\ exitStatus' = NormalExitStatus
    /\ pc' = "exit"
    /\ UNCHANGED << inputs, start, end, current, all_games, mistake_analysis, file,
                    retval, log, raised >>

\* except Exception: the error line, the traceback, sys.exit(1).
MainExcept ==
    /\ pc = "raised"
    /\ out' = Append(out, Line("error", NoMonth))
    /\ exitStatus' = ErrorExitStatus
    /\ pc' = "exit"
    /\ UNCHANGED << inputs, start, end, current, all_games, mistake_analysis, file,
                    retval, log, raised >>

Next ==
    \/ InitServices
    \/ FetchMonth
    \/ FinishFetch
    \/ NoGamesReturn
    \/ Analyse
    \/ Summarise
    \/ Save
    \/ MainReturn
    \/ MainExcept

Spec == Init /\ [][Next]_vars

\* The script is one thread that runs until the process exits.
FairSpec == Spec /\ WF_vars(Next)

(***************************************************************************)
(* What a state shows of the run so far                                    *)
(***************************************************************************)

Range(seq) == { seq[i] : i \in 1..Len(seq) }

Positions(op) == { i \in 1..Len(log) : log[i].op = op }

\* The get_games_by_month calls so far, in order.
FetchCalls == SelectSeq(log, LAMBDA c : c.op = "fetch")

RequestedMonths == { c.month : c \in Range(FetchCalls) }

\* The months whose try block ended in the except clause.
FailedMonths == { l.month : l \in { x \in Range(out) : x.tag = "month_failed" } }

Printed(tag) == \E l \in Range(out) : l.tag = tag

\* Months counted from year 0.
MonthIndex(month) == month[1] * 12 + month[2] - 1

MonthOf(dt) == << dt.year, dt.month >>

\* The calendar months that overlap the range from s to e.
MonthsOfRange(s, e) ==
    { << y, m >> \in (s.year .. e.year) \X (1..12) :
        /\ MonthIndex(MonthOf(s)) <= MonthIndex(<< y, m >>)
        /\ MonthIndex(<< y, m >>) <= MonthIndex(MonthOf(e)) }

\* The local time a game ended, a game without end_time counting as 0.
GameDate(g) == FromTimestamp(EndTimeOf(g), utcOffset)

\* Midnight of the day of dt.
DayOf(dt) == DateTime(dt.year, dt.month, dt.day, 0)

\* The date range is parsed and not empty.
RangeGiven == start # NoDate /\ DtLe(start, end)

\* The games the collaborator holds that ended on a day of the range.
HeldInRange ==
    { g \in Range(store) :
        /\ g.end_time.kind = "num"
        /\ DtLe(DayOf(start), DayOf(GameDate(g)))
        /\ DtLe(DayOf(GameDate(g)), DayOf(end)) }

\* The games of a month's archive that lie between start and end.
AcceptedOf(month) ==
    SelectSeq(store, LAMBDA g : /\ g.month = month
                                /\ DtLe(start, GameDate(g))
                                /\ DtLe(GameDate(g), end))

(***************************************************************************)
(* Error handling                                                          *)
(***************************************************************************)

\* C1: when the fetch loop has visited every month and the accumulated list
\* is empty, the run prints an error and the process exits with a non-zero
\* status.  (The "No games found" line is taken as the printed error.)
C1_NoGamesExitsNonZero ==
    (pc = "exit" /\ raised = "none" /\ FetchCalls # << >> /\ Len(all_games) = 0)
        => ((Printed("no_games") \/ Printed("error")) /\ exitStatus # 0)

\* C2: a month whose fetch or filter failed does not stop the run: once the
\* run is over without an exception having left main(), every later calendar
\* month of the range has been requested, and the analysis has been called
\* if any game was collected.
C2_FailedMonthNotFatal ==
    (pc = "exit" /\ raised = "none")
        => \A f \in FailedMonths :
             /\ \A m \in MonthsOfRange(start, end) :
                   MonthIndex(m) > MonthIndex(f) => m \in RequestedMonths
             /\ Len(all_games) > 0 => Positions("analyse") # {}

\* C3: an exception that leaves main() (from the constructors, the date
\* parsing, the month step, the analysis, the summary or the write) stops
\* every further step of main(), the run ends with the error line and exit
\* status 1, and the success line is never printed.
C3_UnhandledExceptionExitsOne ==
    raised # "none"
        => /\ pc \in {"raised", "exit"}
           /\ ~ Printed("success")
           /\ pc = "exit" => (exitStatus = 1 /\ Printed("error"))

\* C3 witness: a run ended by an exception of the month step after a fetch.
C3_Witness ==
    pc = "exit" /\ raised = "advance" /\ FetchCalls # << >> /\ exitStatus = 1

(***************************************************************************)
(* The games that are analysed and saved                                   *)
(***************************************************************************)

\* C4: for a start date <= end date and a run in which no month failed and
\* no exception left main(), every calendar month that overlaps the range
\* has been requested, and every game the collaborator holds that ended on a
\* day from the start date through the end date was handed to the analysis
\* and is in the saved file.
C4_EveryGameOfRangeAnalysed ==
    (pc = "exit" /\ raised = "none" /\ RangeGiven /\ FailedMonths = {})
        => /\ MonthsOfRange(start, end) \subseteq RequestedMonths
           /\ \A g \in HeldInRange :
                /\ \E i \in Positions("analyse") : g \in Range(log[i].games)
                /\ file.kind = "written"
                /\ g \in Range(file.games)

\* C5: a file the run has written holds metadata, mistake_analysis and
\* games; total_games is the length of games, games is the list handed to
\* aggregate_mistake_analysis and mistake_analysis is the value it returned.
C5_FileHoldsWhatWasAnalysed ==
    file.kind = "written"
        => /\ {"metadata", "mistake_analysis", "games"} \subseteq DOMAIN file
           /\ file.metadata.total_games = Len(file.games)
           /\ \E i \in Positions("analyse") : file.games = log[i].games
           /\ \E i \in Positions("analysed") : file.mistake_analysis = log[i].result

\* C5 witness: a written file with two games.
C5_Witness == file.kind = "written" /\ Len(file.games) >= 2 /\ pc = "exit"

\* C6: every game of all_games, every game handed to the analysis and every
\* game of the written file ended at a local time t with start <= t <= end,
\* a game without end_time counting as time 0.
C6_OnlyGamesOfInterval ==
    LET Inside(g) == DtLe(start, GameDate(g)) /\ DtLe(GameDate(g), end)
    IN  /\ \A g \in Range(all_games) : Inside(g)
        /\ \A i \in Positions("analyse") : \A g \in Range(log[i].games) : Inside(g)
        /\ file.kind = "written" => \A g \in Range(file.games) : Inside(g)

\* C6 witness: of two games of a requested month, the one after the end was
\* left out and the other one saved.
C6_Witness ==
    /\ file.kind = "written"
    /\ \E g \in Range(store) :
         /\ g.month \in RequestedMonths
         /\ g.end_time.kind = "num"
         /\ DtLt(end, GameDate(g))
         /\ g \notin Range(file.games)

\* C7: aggregate_mistake_analysis is called at most once and only after the
\* last month of the range has been requested; the file is written at most
\* once and only after the analysis has returned; no fetch follows the start
\* of the analysis.
C7_StepsInOrder ==
    /\ Cardinality(Positions("analyse")) <= 1
    /\ \A i \in Positions("analyse") :
         \E j \in Positions("fetch") : j < i /\ log[j].month = MonthOf(end)
    /\ Cardinality(Positions("write")) <= 1
    /\ \A i \in Positions("write") : \E j \in Positions("analysed") : j < i
    /\ \A i \in Positions("analyse") : \A j \in Positions("fetch") : j < i

\* C8: as long as no game is collected the analysis is not called and the
\* output file is as the run found it; the file is as the run found it too
\* when aggregate_mistake_analysis raised.
C8_NoGamesNoAnalysisNoFile ==
    /\ Len(all_games) = 0 => (Positions("analyse") = {} /\ file = file0)
    /\ raised = "analyse" => file = file0

\* C8 witness: a run that fetched games, kept none, and ended with the file
\* of an earlier run in place.
C8_Witness ==
    /\ pc = "exit"
    /\ retval = "None"
    /\ \E g \in Range(store) : g.month \in RequestedMonths
    /\ file0.kind = "old"

(***************************************************************************)
(* The fetch loop                                                          *)
(***************************************************************************)

C10_MonthAllOrNothing ==
    [][ IF Len(log') = Len(log) + 1 /\ log'[Len(log')].op = "fetch"
        THEN LET m    == log'[Len(log')].month
                 line == out'[Len(out')]
             IN  /\ line.month = m
                 /\ (\E g \in Range(store) : g.month = m /\ g.end_time.kind = "bad")
                       => line.tag = "month_failed"
                 /\ IF line.tag = "month_failed"
                    THEN all_games' = all_games
                    ELSE all_games' = all_games \o AcceptedOf(m)
        ELSE all_games' = all_games ]_vars

\* C10 witness: a month failed on a game that followed an acceptable one, and
\* the acceptable one is not in all_games.
C10_Witness ==
    /\ pc = "exit"
    /\ \E i, j \in 1..Len(store) :
         /\ i < j
         /\ store[i].month = store[j].month
         /\ store[i].month \in FailedMonths
         /\ store[j].end_time.kind = "bad"
         /\ store[i] \in Range(AcceptedOf(store[i].month))
         /\ store[i] \notin Range(all_games)

====
